---- MODULE Spec2Model ----
(***************************************************************************)
(* Model of energy_simulation.py: the module globals (reservoir, baseline  *)
(* mapping, stop flag, thread handle), the simulation thread               *)
(* (simulate_energy_availability), the /start_simulation handler and the   *)
(* /ml_model_epochs handler.  Flask serves requests on concurrent threads, *)
(* so handlers interleave with each other and with the simulation thread   *)
(* at the granularity of the reads and writes of the module globals.       *)
(*                                                                         *)
(* Energies are integers in joules.  Power factors are kept as numerators  *)
(* over PfScale.  Arithmetic the source does in floating point is done     *)
(* exactly; all modelled quantities are multiples that divide evenly.      *)
(***************************************************************************)
EXTENDS Integers, Sequences, FiniteSets, TLC

(* ---- program constants ---- *)
JoulesPerKwh == 3600000
HoursPerDay == 24
SecondsPerHour == 3600
\* the number of lines load_power_factors expects (line 41)
FileHours == 262968
\* the first and the last year is_valid_date accepts in full (line 167)
FirstYear == 1986
LastYear == 2015

(* ---- bounds of the model ---- *)
\* number of Thread objects start_simulation_route may create
MaxThreads == 2
\* hours one simulation thread simulates (power_factor_index stays below it)
MaxHours == 1
\* cumulative counters the telemetry reports: 0..MaxCounter, times CounterUnit
MaxCounter == 1
CounterUnit == JoulesPerKwh \div 2
\* days in the power factor file (the real file has 10957 days, 262968 hours)
SeriesDays == 2
\* update_interval_sec, scaled (the source passes 15)
UpdateIntervalSec == 1800
\* epochs a progress report may carry
MaxEpochs == 2
\* denominator of the modelled power factors
PfScale == 2
\* hours beyond the first day that a long run is followed for
ExtraHours == 1


Pods == {"pod1"}
Threads == 1..MaxThreads
NoThread == 0
StartHandlers == {1, 2}

Min(a, b) == IF a < b THEN a ELSE b

Empty == [p \in {} |-> 0]

RECURSIVE SumOver(_, _)
SumOver(f, S) ==
    IF S = {} THEN 0
    ELSE LET p == CHOOSE q \in S : TRUE IN f[p] + SumOver(f, S \ {p})

\* sum(current_energy_difference.values())
Sum(f) == SumOver(f, DOMAIN f)

(* ---- the power factor file ---- *)
ExpectedLen == SeriesDays * HoursPerDay
LastValidDay == SeriesDays - 1

\* contents of the file: hourly power factors (numerators over PfScale)
PfValue(i) == ((i + 1) % 5) % (PfScale + 1)
FileData(n) == [i \in 1..n |-> PfValue(i - 1)]

Undefined == <<"undefined">>

\* load_power_factors: the outcome of reading the file
\*   "ok"      the file has the expected number of lines
\*   "missing" FileNotFoundError, or a line float() rejects (the exception leaves
\*             the comprehension before the assignment); power_factors_data is
\*             left as it was
\*   "short"   the file lacks its last day: assigned all the same (lines 39-44)
\*   "empty"   the file has no lines: assigned all the same
LoadOutcomes == {"ok", "missing"}
AllLoadOutcomes == {"ok", "missing", "short", "empty"}
LoadPowerFactors(outcome, old) ==
    CASE outcome = "ok" -> FileData(ExpectedLen)
      [] outcome = "short" -> FileData(ExpectedLen - HoursPerDay)
      [] outcome = "empty" -> <<>>
      [] OTHER -> old

\* the days from 1986-01-01 to 2015-12-31, both included
IsLeap(y) == (y % 4 = 0 /\ y % 100 # 0) \/ y % 400 = 0
RECURSIVE DaysUpTo(_)
DaysUpTo(y) ==
    IF y < FirstYear THEN 0 ELSE (IF IsLeap(y) THEN 366 ELSE 365) + DaysUpTo(y - 1)
RangeDays == DaysUpTo(LastYear)

\* is_valid_date: day is the number of days since 1986-01-01, or "bad" for a
\* string strptime rejects
BadDate == -1000

\* a range check that lets the day after the last one through
IsValidDatePastEnd(day) == day # BadDate /\ 0 <= day /\ day <= LastValidDay + 1

IsValidDate(day) == day # BadDate /\ 0 <= day /\ day <= LastValidDay

Slice(s, from, to) ==
    [i \in 1..(IF Min(to, Len(s)) > from THEN Min(to, Len(s)) - from ELSE 0) |-> s[from + i]]

\* line 62
StartIndex(day) == day * HoursPerDay

\* read_power_factors after the load attempt of line 54 (data is not Undefined)
ReadPowerFactors(data, day) ==
    IF Len(data) = 0 THEN [i \in 1..HoursPerDay |-> PfScale \div 2]
    ELSE Slice(data, StartIndex(day), StartIndex(day) + HoursPerDay)

(* ---- telemetry ---- *)
CounterValues == {c * CounterUnit : c \in 0..MaxCounter}
PollMaps == UNION {[S -> CounterValues] : S \in SUBSET Pods}
PollResults == {[ok |-> FALSE, value |-> Empty]} \cup {[ok |-> TRUE, value |-> m] : m \in PollMaps}

\* a poll whose failure also throws the baseline away
UtilizationForgettingOnFailure(result, prev) ==
    IF ~result.ok THEN [diff |-> Empty, prev |-> Empty]
    ELSE [diff |-> [p \in DOMAIN result.value |->
                       result.value[p] - (IF p \in DOMAIN prev THEN prev[p] ELSE 0)],
          prev |-> [p \in DOMAIN prev \cup DOMAIN result.value |->
                       IF p \in DOMAIN result.value THEN result.value[p] ELSE prev[p]]]

\* get_current_energy_utilization: the deltas returned and the baseline left
GetCurrentEnergyUtilization(result, prev) ==
    IF ~result.ok THEN [diff |-> Empty, prev |-> prev]
    ELSE [diff |-> [p \in DOMAIN result.value |->
                       result.value[p] - (IF p \in DOMAIN prev THEN prev[p] ELSE 0)],
          prev |-> [p \in DOMAIN prev \cup DOMAIN result.value |->
                       IF p \in DOMAIN result.value THEN result.value[p] ELSE prev[p]]]

\* the counters a run has last been told: `last`, overwritten by what a poll lists
Polled(result, last) ==
    [p \in DOMAIN last \cup DOMAIN result.value |->
        IF p \in DOMAIN result.value THEN result.value[p] ELSE last[p]]

(* ---- the energy balance ---- *)
IterationsPerHour == SecondsPerHour \div UpdateIntervalSec

\* the hour's energy at every tick: the division by iterations_per_hour left out
GeneratedPerHour(pf, wind) == (pf * wind) \div PfScale

\* pf * wind_farm_capacity_joules / iterations_per_hour
Generated(pf, wind) == (pf * wind) \div (PfScale * IterationsPerHour)

\* min(stored_energy_joules + net_energy_joules, storage_capacity_joules)
Clamp(x, capacity) == Min(x, capacity)

(* ---- the wind-down policy ---- *)

\* the threshold test with <= for <
WindDownAtThreshold(stored, capacity) == 5 * stored <= capacity

\* check_wind_down_instruction: stored_energy_joules < 0.2 * storage_capacity_joules
CheckWindDownInstruction(stored, capacity) == 5 * stored < capacity

\* the lookahead with the 20% threshold for the 10% floor
LookaheadToThreshold(stored, capacity, energy, epochs, estimated) ==
    5 * (stored * epochs - (estimated - epochs) * energy) >= capacity * epochs

\* lines 115-117: energy_per_epoch = energy / epochs,
\* energy_to_complete = (estimated - epochs) * energy_per_epoch,
\* stored - energy_to_complete >= 0.1 * capacity; with epochs > 0 both sides are
\* multiplied by 10 * epochs
LookaheadAllows(stored, capacity, energy, epochs, estimated) ==
    10 * (stored * epochs - (estimated - epochs) * energy) >= capacity * epochs

\* the messages of the responses, and the two that are not decisions
Messages == {"Success", "Complete", "WindDown", "Invalid", "Error"}
IsProceed(m) == m \in {"Success", "Complete"}
IsWindDown(m) == m = "WindDown"

(* ---- requests ---- *)
\* <<stored_energy_kwh, storage_capacity_kwh, wind_farm_production_capacity_kwh>>
Configs == {<<1, 5, 480>>, <<2, 10, 0>>, <<0, 5, 0>>}
StartRequests ==
    {[date |-> d, config |-> c] : d \in {0}, c \in Configs}
    \cup {[date |-> d, config |-> <<1, 5, 480>>] : d \in {LastValidDay + 1}}
NoStartRequest == [date |-> BadDate, config |-> <<0, 0, 0>>]

\* the JSON of a progress report
NoEstimate == -1
\* previous_total_energy[pod] has not been read by the request
NoEnergy == -1
ReportRequests ==
    {[fields |-> TRUE, pod_name |-> p, epochs |-> e, has_estimate |-> TRUE,
      estimated_total_epochs |-> x] :
        p \in Pods, e \in 0..MaxEpochs, x \in {1, MaxEpochs + 1}}
    \cup {[fields |-> TRUE, pod_name |-> p, epochs |-> e, has_estimate |-> FALSE,
           estimated_total_epochs |-> NoEstimate] : p \in Pods, e \in 0..MaxEpochs}
    \cup {[fields |-> FALSE, pod_name |-> p, epochs |-> 0, has_estimate |-> FALSE,
           estimated_total_epochs |-> NoEstimate] : p \in Pods}
NoReport == [fields |-> FALSE, pod_name |-> "", epochs |-> 0, has_estimate |-> FALSE,
             estimated_total_epochs |-> NoEstimate]

VARIABLES
    stored_energy_joules,
    storage_capacity_joules,
    wind_farm_capacity_joules,
    previous_total_energy,
    stop_simulation,
    simulation_thread,
    power_factors_data,
    tpc,
    power_factors,
    power_factor_index,
    start_index,
    iteration,
    current_energy_difference,
    poll_failed,
    stopSince,
    ticks_after_stop,
    last_counter,
    unaccounted,
    spc,
    sreq,
    joinTarget,
    rpc,
    rreq,
    check_stored,
    check_capacity,
    baseline_energy,
    look_stored,
    look_capacity,
    response,
    seen

reservoir == <<stored_energy_joules, storage_capacity_joules, wind_farm_capacity_joules>>
globals == <<reservoir, previous_total_energy, stop_simulation, simulation_thread,
             power_factors_data>>
threadVars == <<tpc, power_factors, power_factor_index, start_index, iteration,
                current_energy_difference, poll_failed, stopSince,
                ticks_after_stop, last_counter, unaccounted>>
startVars == <<spc, sreq, joinTarget>>
reportLocals == <<check_stored, check_capacity, baseline_energy, look_stored, look_capacity>>
reportVars == <<rpc, rreq, reportLocals, response>>
vars == <<globals, threadVars, startVars, reportVars, seen>>

Init ==
    /\ stored_energy_joules = 0
    /\ storage_capacity_joules = 0
    /\ wind_farm_capacity_joules = 0
    /\ previous_total_energy = Empty
    /\ stop_simulation = FALSE
    /\ simulation_thread = NoThread
    /\ power_factors_data = Undefined
    /\ tpc = [t \in Threads |-> "unborn"]
    /\ power_factors = [t \in Threads |-> <<>>]
    /\ power_factor_index = [t \in Threads |-> 0]
    /\ start_index = [t \in Threads |-> 0]
    /\ iteration = [t \in Threads |-> 0]
    /\ current_energy_difference = [t \in Threads |-> Empty]
    /\ poll_failed = [t \in Threads |-> FALSE]
    /\ stopSince = [t \in Threads |-> FALSE]
    /\ ticks_after_stop = [t \in Threads |-> 0]
    /\ last_counter = [t \in Threads |-> Empty]
    /\ unaccounted = [t \in Threads |-> Empty]
    /\ spc = [h \in StartHandlers |-> "idle"]
    /\ sreq = [h \in StartHandlers |-> NoStartRequest]
    /\ joinTarget = [h \in StartHandlers |-> NoThread]
    /\ rpc = "idle"
    /\ rreq = NoReport
    /\ check_stored = 0
    /\ check_capacity = 0
    /\ baseline_energy = NoEnergy
    /\ look_stored = 0
    /\ look_capacity = 0
    /\ response = "none"
    /\ seen = {}

IsAlive(t) == t # NoThread /\ tpc[t] \notin {"unborn", "dead", "crashed"}

(* ---- what a progress report in flight could have been answered ---- *)

\* ml_model_epochs, lines 109-121, run on one state of the globals: the message
\* the request gets when nothing else runs between its reads
Evaluate(stored, capacity, prev, req) ==
    IF ~CheckWindDownInstruction(stored, capacity) THEN "Success"
    ELSE IF req.has_estimate /\ req.pod_name \in DOMAIN prev
         THEN IF req.estimated_total_epochs < req.epochs THEN "WindDown"
              ELSE IF req.epochs = 0 THEN "Error"
              ELSE IF LookaheadAllows(stored, capacity, prev[req.pod_name],
                                      req.epochs, req.estimated_total_epochs)
                   THEN "Complete"
                   ELSE "WindDown"
         ELSE "WindDown"

Decision(m) == IF IsProceed(m) THEN "Proceed" ELSE IF IsWindDown(m) THEN "WindDown" ELSE m

\* history: for each state a report has been in flight in, the decision that the
\* globals of that state give
Observe ==
    seen' = IF rpc' = "idle" THEN {}
            ELSE IF rpc' = "done" /\ rpc = "done" THEN seen
            ELSE seen \cup {Decision(Evaluate(stored_energy_joules', storage_capacity_joules',
                                              previous_total_energy', rreq'))}

(* ---- simulate_energy_availability ---- *)

\* the locals of a thread that has ended
ThreadEnds(t, how) ==
    /\ tpc' = [tpc EXCEPT ![t] = how]
    /\ power_factors' = [power_factors EXCEPT ![t] = <<>>]
    /\ power_factor_index' = [power_factor_index EXCEPT ![t] = 0]
    /\ start_index' = [start_index EXCEPT ![t] = 0]
    /\ iteration' = [iteration EXCEPT ![t] = 0]
    /\ current_energy_difference' = [current_energy_difference EXCEPT ![t] = Empty]
    /\ poll_failed' = [poll_failed EXCEPT ![t] = FALSE]
    /\ stopSince' = [stopSince EXCEPT ![t] = FALSE]
    /\ ticks_after_stop' = [ticks_after_stop EXCEPT ![t] = 0]
    /\ last_counter' = [last_counter EXCEPT ![t] = Empty]
    /\ unaccounted' = [unaccounted EXCEPT ![t] = Empty]

\* lines 126-128: the locals, and previous_total_energy = {}
ThreadInit(t) ==
    /\ tpc[t] = "init"
    /\ previous_total_energy' = Empty
    /\ power_factor_index' = [power_factor_index EXCEPT ![t] = 0]
    /\ tpc' = [tpc EXCEPT ![t] = "seed"]
    /\ UNCHANGED <<reservoir, stop_simulation, simulation_thread, power_factors_data>>
    /\ UNCHANGED <<power_factors, start_index, iteration, current_energy_difference,
                   poll_failed, stopSince, ticks_after_stop, last_counter, unaccounted>>
    /\ UNCHANGED <<startVars, reportVars>>
    /\ Observe

\* lines 130-131: the seeding poll, whose deltas are dropped, and the first sleep;
\* with `audit` the history of the run's accounts is kept
SeedStep(t, result, audit) ==
    /\ tpc[t] = "seed"
    /\ previous_total_energy' = GetCurrentEnergyUtilization(result, previous_total_energy).prev
    /\ tpc' = [tpc EXCEPT ![t] = "while"]
    /\ IF audit
       THEN /\ last_counter' = [last_counter EXCEPT ![t] = Polled(result, @)]
            /\ unaccounted' = [unaccounted EXCEPT ![t] = [p \in DOMAIN result.value |-> 0]]
       ELSE UNCHANGED <<last_counter, unaccounted>>
    /\ UNCHANGED <<reservoir, stop_simulation, simulation_thread, power_factors_data>>
    /\ UNCHANGED <<power_factors, power_factor_index, start_index, iteration,
                   current_energy_difference, poll_failed, stopSince, ticks_after_stop>>
    /\ UNCHANGED <<startVars, reportVars>>
    /\ Observe

ThreadSeed(t, result) == SeedStep(t, result, FALSE)

\* line 132, and line 134 entering the for loop; a thread that has simulated
\* `hours` hours sleeps on until the stop flag is set
ThreadLoop(t, hours) ==
    /\ tpc[t] = "while"
    /\ stop_simulation \/ power_factor_index[t] < hours
    /\ IF stop_simulation
       THEN /\ tpc' = [tpc EXCEPT ![t] = "exit"]
            /\ UNCHANGED iteration
       ELSE /\ tpc' = [tpc EXCEPT ![t] = "tick"]
            /\ iteration' = [iteration EXCEPT ![t] = 1]
    /\ UNCHANGED globals
    /\ UNCHANGED <<power_factors, power_factor_index, start_index,
                   current_energy_difference, poll_failed, stopSince,
                   ticks_after_stop, last_counter, unaccounted>>
    /\ UNCHANGED <<startVars, reportVars>>
    /\ Observe

ThreadWhile(t) == ThreadLoop(t, MaxHours)

\* lines 135-143: poll, power factor, generated energy, net energy, the clamped store;
\* with `audit` the history of the run's accounts and of its ticks after a stop
\* request is kept
TickStep(t, result, audit) ==
    /\ tpc[t] = "tick"
    /\ LET g == GetCurrentEnergyUtilization(result, previous_total_energy)
           n == Len(power_factors[t])
       IN /\ previous_total_energy' = g.prev
          /\ IF n = 0
             THEN \* power_factor_index % len(power_factors): ZeroDivisionError
                  /\ ThreadEnds(t, "crashed")
                  /\ UNCHANGED stored_energy_joules
             ELSE LET pf == power_factors[t][(power_factor_index[t] % n) + 1]
                      generated_energy_joules == Generated(pf, wind_farm_capacity_joules)
                      current_utilization == Sum(g.diff)
                      net_energy_joules == generated_energy_joules - current_utilization
                  IN /\ stored_energy_joules' =
                            Clamp(stored_energy_joules + net_energy_joules,
                                  storage_capacity_joules)
                     /\ current_energy_difference' =
                            [current_energy_difference EXCEPT ![t] = g.diff]
                     /\ poll_failed' = [poll_failed EXCEPT ![t] = ~result.ok]
                     /\ tpc' = [tpc EXCEPT ![t] = "stopcheck"]
                     /\ IF audit
                        THEN /\ ticks_after_stop' =
                                    [ticks_after_stop EXCEPT ![t] =
                                        IF stopSince[t] THEN Min(@ + 1, 2) ELSE 0]
                             /\ last_counter' =
                                    [last_counter EXCEPT ![t] = Polled(result, @)]
                             /\ unaccounted' =
                                    [unaccounted EXCEPT ![t] =
                                        [p \in DOMAIN @ |->
                                            IF p \in DOMAIN result.value
                                            THEN @[p]
                                                 + (result.value[p] - last_counter[t][p])
                                                 - g.diff[p]
                                            ELSE @[p]]]
                        ELSE UNCHANGED <<ticks_after_stop, last_counter, unaccounted>>
                     /\ UNCHANGED <<power_factors, power_factor_index, start_index,
                                    iteration, stopSince>>
    /\ UNCHANGED <<storage_capacity_joules, wind_farm_capacity_joules, stop_simulation,
                   simulation_thread, power_factors_data>>
    /\ UNCHANGED <<startVars, reportVars>>
    /\ Observe

ThreadTick(t, result) == TickStep(t, result, FALSE)

\* lines 145-159: break on the stop flag, else advance the hour, sleep, next iteration
ThreadStopCheck(t) ==
    /\ tpc[t] = "stopcheck"
    /\ IF stop_simulation
       THEN /\ tpc' = [tpc EXCEPT ![t] = "while"]
            /\ UNCHANGED <<power_factor_index, iteration>>
       ELSE /\ power_factor_index' =
                   [power_factor_index EXCEPT ![t] =
                       IF iteration[t] % IterationsPerHour = 0 THEN @ + 1 ELSE @]
            /\ IF iteration[t] = IterationsPerHour
               THEN /\ tpc' = [tpc EXCEPT ![t] = "while"]
                    /\ UNCHANGED iteration
               ELSE /\ tpc' = [tpc EXCEPT ![t] = "tick"]
                    /\ iteration' = [iteration EXCEPT ![t] = @ + 1]
    /\ current_energy_difference' = [current_energy_difference EXCEPT ![t] = Empty]
    /\ poll_failed' = [poll_failed EXCEPT ![t] = FALSE]
    /\ UNCHANGED globals
    /\ UNCHANGED <<power_factors, start_index, stopSince, ticks_after_stop,
                   last_counter, unaccounted>>
    /\ UNCHANGED <<startVars, reportVars>>
    /\ Observe

\* line 162: stop_simulation = False, and the thread ends
ThreadExit(t) ==
    /\ tpc[t] = "exit"
    /\ stop_simulation' = FALSE
    /\ ThreadEnds(t, "dead")
    /\ UNCHANGED <<reservoir, previous_total_energy, simulation_thread, power_factors_data>>
    /\ UNCHANGED <<startVars, reportVars>>
    /\ Observe

(* ---- start_simulation_route ---- *)

Unborn == {t \in Threads : tpc[t] = "unborn"}
InFlightValid == {h \in StartHandlers : spc[h] # "idle" /\ IsValidDate(sreq[h].date)}

\* a POST /start_simulation arrives; the server's request threads are
\* interchangeable, the lowest free one takes it
StartBegin(h, req) ==
    /\ spc[h] = "idle"
    /\ \A k \in StartHandlers : k < h => spc[k] # "idle"
    /\ IsValidDate(req.date) => Cardinality(InFlightValid) < Cardinality(Unborn)
    /\ sreq' = [sreq EXCEPT ![h] = req]
    /\ spc' = [spc EXCEPT ![h] = "check"]
    /\ UNCHANGED joinTarget
    /\ UNCHANGED <<globals, threadVars, reportVars>>
    /\ Observe

\* lines 178-181: if simulation_thread: stop_simulation = True, and
\* if simulation_thread.is_alive(): simulation_thread.join()
StartCheckThread(h) ==
    /\ spc[h] = "check"
    /\ IF simulation_thread # NoThread
       THEN /\ stop_simulation' = TRUE
            /\ stopSince' = [t \in Threads |-> stopSince[t] \/ IsAlive(t)]
            /\ joinTarget' = [joinTarget EXCEPT ![h] =
                                 IF IsAlive(simulation_thread) THEN simulation_thread
                                 ELSE NoThread]
       ELSE UNCHANGED <<stop_simulation, stopSince, joinTarget>>
    /\ spc' = [spc EXCEPT ![h] = "join"]
    /\ UNCHANGED <<reservoir, previous_total_energy, simulation_thread, power_factors_data>>
    /\ UNCHANGED <<tpc, power_factors, power_factor_index, start_index, iteration,
                   current_energy_difference, poll_failed, ticks_after_stop,
                   last_counter, unaccounted>>
    /\ UNCHANGED sreq
    /\ UNCHANGED reportVars
    /\ Observe

\* line 181: join returns once the thread has ended; lines 184-193:
\* load_power_factors(), then the date check; an invalid date returns
StartLoad(h, outcome) ==
    /\ spc[h] = "join"
    /\ ~IsAlive(joinTarget[h])
    /\ joinTarget' = [joinTarget EXCEPT ![h] = NoThread]
    /\ power_factors_data' = LoadPowerFactors(outcome, power_factors_data)
    /\ IF IsValidDate(sreq[h].date)
       THEN /\ spc' = [spc EXCEPT ![h] = "stored"]
            /\ UNCHANGED sreq
       ELSE /\ spc' = [spc EXCEPT ![h] = "idle"]
            /\ sreq' = [sreq EXCEPT ![h] = NoStartRequest]
    /\ UNCHANGED <<reservoir, previous_total_energy, stop_simulation, simulation_thread>>
    /\ UNCHANGED <<threadVars, reportVars>>
    /\ Observe

\* line 195
StartSetStored(h) ==
    /\ spc[h] = "stored"
    /\ stored_energy_joules' = sreq[h].config[1] * JoulesPerKwh
    /\ spc' = [spc EXCEPT ![h] = "capacity"]
    /\ UNCHANGED <<storage_capacity_joules, wind_farm_capacity_joules,
                   previous_total_energy, stop_simulation, simulation_thread, power_factors_data>>
    /\ UNCHANGED <<sreq, joinTarget>>
    /\ UNCHANGED <<threadVars, reportVars>>
    /\ Observe

\* lines 196-206: the capacities, read_power_factors, then the new thread is created
\* and started.  power_factors_data is only bound by a load that read the file:
\* when none has, read_power_factors raises NameError (line 53) and the request
\* ends without a thread.  When it is bound and empty, line 54 loads again, with
\* `outcome`.
StartSetCapacity(h, outcome) ==
    /\ spc[h] = "capacity"
    /\ storage_capacity_joules' = sreq[h].config[2] * JoulesPerKwh
    /\ wind_farm_capacity_joules' = (sreq[h].config[3] * JoulesPerKwh) \div HoursPerDay
    /\ spc' = [spc EXCEPT ![h] = "idle"]
    /\ sreq' = [sreq EXCEPT ![h] = NoStartRequest]
    /\ IF power_factors_data = Undefined
       THEN UNCHANGED <<simulation_thread, tpc, power_factors, start_index,
                        power_factors_data>>
       ELSE LET t == CHOOSE u \in Unborn : \A v \in Unborn : u <= v
                data == IF Len(power_factors_data) = 0
                        THEN LoadPowerFactors(outcome, power_factors_data)
                        ELSE power_factors_data
            IN /\ power_factors_data' = data
               /\ simulation_thread' = t
               /\ tpc' = [tpc EXCEPT ![t] = "init"]
               /\ start_index' = [start_index EXCEPT ![t] = StartIndex(sreq[h].date)]
               /\ power_factors' = [power_factors EXCEPT ![t] =
                                       ReadPowerFactors(data, sreq[h].date)]
    /\ UNCHANGED <<stored_energy_joules, previous_total_energy, stop_simulation>>
    /\ UNCHANGED <<power_factor_index, iteration, current_energy_difference, poll_failed,
                   stopSince, ticks_after_stop, last_counter, unaccounted>>
    /\ UNCHANGED joinTarget
    /\ UNCHANGED reportVars
    /\ Observe

(* ---- ml_model_epochs ---- *)

Responds(m) ==
    /\ response' = m
    /\ rpc' = "done"

\* a report that also asks the running loop to stop
ReportBeginStoppingRun(req) ==
    /\ rpc = "idle"
    /\ rreq' = req
    /\ IF req.fields
       THEN /\ rpc' = "check_stored"
            /\ UNCHANGED response
       ELSE Responds("Invalid")
    /\ stop_simulation' = TRUE
    /\ UNCHANGED reportLocals
    /\ UNCHANGED <<reservoir, previous_total_energy, simulation_thread, power_factors_data>>
    /\ UNCHANGED <<threadVars, startVars>>
    /\ Observe

\* lines 99-105: a POST /ml_model_epochs arrives; a report without "epochs" or
\* "pod_name" is answered 400
ReportBegin(req) ==
    /\ rpc = "idle"
    /\ rreq' = req
    /\ IF req.fields
       THEN /\ rpc' = "check_stored"
            /\ UNCHANGED response
       ELSE Responds("Invalid")
    /\ UNCHANGED reportLocals
    /\ UNCHANGED <<globals, threadVars, startVars>>
    /\ Observe

\* line 93, the left operand
ReportCheckStored ==
    /\ rpc = "check_stored"
    /\ check_stored' = stored_energy_joules
    /\ rpc' = "check_capacity"
    /\ UNCHANGED <<rreq, response, check_capacity, baseline_energy, look_stored, look_capacity>>
    /\ UNCHANGED <<globals, threadVars, startVars>>
    /\ Observe

\* line 93, the right operand and the comparison; lines 109, 111 (the estimate), 119-121
ReportCheckCapacity ==
    /\ rpc = "check_capacity"
    /\ check_capacity' = storage_capacity_joules
    /\ IF ~CheckWindDownInstruction(check_stored, storage_capacity_joules)
       THEN Responds("Success")
       ELSE IF rreq.has_estimate
            THEN /\ rpc' = "known"
                 /\ UNCHANGED response
            ELSE Responds("WindDown")
    /\ UNCHANGED <<rreq, check_stored, baseline_energy, look_stored, look_capacity>>
    /\ UNCHANGED <<globals, threadVars, startVars>>
    /\ Observe

\* line 111 without its membership test
ReportKnownUntested ==
    /\ rpc = "known"
    /\ IF rreq.estimated_total_epochs < rreq.epochs
       THEN Responds("WindDown")
       ELSE /\ rpc' = "energy"
            /\ UNCHANGED response
    /\ UNCHANGED <<rreq, reportLocals>>
    /\ UNCHANGED <<globals, threadVars, startVars>>
    /\ Observe

\* lines 111-114: the pod is in previous_total_energy, the estimate is not exceeded
ReportKnown ==
    /\ rpc = "known"
    /\ IF rreq.pod_name \in DOMAIN previous_total_energy
       THEN IF rreq.estimated_total_epochs < rreq.epochs
            THEN Responds("WindDown")
            ELSE /\ rpc' = "energy"
                 /\ UNCHANGED response
       ELSE Responds("WindDown")
    /\ UNCHANGED <<rreq, reportLocals>>
    /\ UNCHANGED <<globals, threadVars, startVars>>
    /\ Observe

\* lines 115-116: previous_total_energy[pod] / epochs; KeyError when the mapping was
\* replaced since line 111, ZeroDivisionError when epochs is 0: both answered 500
ReportEnergy ==
    /\ rpc = "energy"
    /\ IF rreq.pod_name \notin DOMAIN previous_total_energy \/ rreq.epochs = 0
       THEN /\ Responds("Error")
            /\ UNCHANGED baseline_energy
       ELSE /\ baseline_energy' = previous_total_energy[rreq.pod_name]
            /\ rpc' = "look_stored"
            /\ UNCHANGED response
    /\ UNCHANGED <<rreq, check_stored, check_capacity, look_stored, look_capacity>>
    /\ UNCHANGED <<globals, threadVars, startVars>>
    /\ Observe

\* line 117, the left operand
ReportLookStored ==
    /\ rpc = "look_stored"
    /\ look_stored' = stored_energy_joules
    /\ rpc' = "look_capacity"
    /\ UNCHANGED <<rreq, response, check_stored, check_capacity, baseline_energy, look_capacity>>
    /\ UNCHANGED <<globals, threadVars, startVars>>
    /\ Observe

\* line 117, the right operand and the comparison; lines 118-120
ReportLookCapacity ==
    /\ rpc = "look_capacity"
    /\ look_capacity' = storage_capacity_joules
    /\ IF LookaheadAllows(look_stored, storage_capacity_joules, baseline_energy,
                          rreq.epochs, rreq.estimated_total_epochs)
       THEN Responds("Complete")
       ELSE Responds("WindDown")
    /\ UNCHANGED <<rreq, check_stored, check_capacity, baseline_energy, look_stored>>
    /\ UNCHANGED <<globals, threadVars, startVars>>
    /\ Observe

\* the response has been sent; the request's locals are gone
ReportReturn ==
    /\ rpc = "done"
    /\ rpc' = "idle"
    /\ rreq' = NoReport
    /\ response' = "none"
    /\ check_stored' = 0
    /\ check_capacity' = 0
    /\ baseline_energy' = NoEnergy
    /\ look_stored' = 0
    /\ look_capacity' = 0
    /\ UNCHANGED <<globals, threadVars, startVars>>
    /\ Observe

ThreadStep ==
    \/ \E t \in Threads : ThreadInit(t)
    \/ \E t \in Threads, r \in PollResults : ThreadSeed(t, r)
    \/ \E t \in Threads : ThreadWhile(t)
    \/ \E t \in Threads, r \in PollResults : ThreadTick(t, r)
    \/ \E t \in Threads : ThreadStopCheck(t)
    \/ \E t \in Threads : ThreadExit(t)

StartStep(h) ==
    \/ \E req \in StartRequests : StartBegin(h, req)
    \/ StartCheckThread(h)
    \/ \E o \in LoadOutcomes : StartLoad(h, o)
    \/ StartSetStored(h)
    \/ \E o \in LoadOutcomes : StartSetCapacity(h, o)

ReportStep ==
    \/ \E req \in ReportRequests : ReportBegin(req)
    \/ ReportCheckStored
    \/ ReportCheckCapacity
    \/ ReportKnown
    \/ ReportEnergy
    \/ ReportLookStored
    \/ ReportLookCapacity
    \/ ReportReturn

\* the simulation threads and concurrent start requests
Next ==
    \/ ThreadStep
    \/ \E h \in StartHandlers : StartStep(h)

Spec == Init /\ [][Next]_vars

\* the simulation threads, start requests one at a time, and a progress report
NextReport ==
    \/ ThreadStep
    \/ StartStep(1)
    \/ ReportStep

SpecReport == Init /\ [][NextReport]_vars

(* ---- a long run over the power factor series ---- *)

\* a run is followed past its first day
LongHours == HoursPerDay + ExtraHours

\* telemetry that reports no workload, or fails
QuietPolls == {r \in PollResults : ~r.ok \/ r.value = Empty}

\* start requests for the first and the last day of the series, and for the days
\* just outside it
SeriesConfig == <<0, 10, 48>>
SeriesRequests ==
    {[date |-> d, config |-> SeriesConfig] : d \in {-1, 0, LastValidDay, LastValidDay + 1}}

ThreadStepSeries ==
    \/ \E t \in Threads : ThreadInit(t)
    \/ \E t \in Threads, r \in QuietPolls : ThreadSeed(t, r)
    \/ \E t \in Threads : ThreadLoop(t, LongHours)
    \/ \E t \in Threads, r \in QuietPolls : ThreadTick(t, r)
    \/ \E t \in Threads : ThreadStopCheck(t)
    \/ \E t \in Threads : ThreadExit(t)

StartStepSeries ==
    \/ \E req \in SeriesRequests : StartBegin(1, req)
    \/ StartCheckThread(1)
    \/ \E o \in AllLoadOutcomes : StartLoad(1, o)
    \/ StartSetStored(1)
    \/ \E o \in AllLoadOutcomes : StartSetCapacity(1, o)

\* one run at a time over every file the loader may find, each followed for more
\* than a day
NextSeries ==
    \/ ThreadStepSeries
    \/ StartStepSeries

SpecSeries == Init /\ [][NextSeries]_vars

(* ---- concurrent start requests, with the history of each run kept ---- *)

\* one configuration without wind, for a valid and for an invalid date
AuditRequests ==
    {[date |-> d, config |-> <<1, 5, 0>>] : d \in {0, LastValidDay + 1}}

ThreadStepAudit ==
    \/ \E t \in Threads : ThreadInit(t)
    \/ \E t \in Threads, r \in PollResults : SeedStep(t, r, TRUE)
    \/ \E t \in Threads : ThreadWhile(t)
    \/ \E t \in Threads, r \in PollResults : TickStep(t, r, TRUE)
    \/ \E t \in Threads : ThreadStopCheck(t)
    \/ \E t \in Threads : ThreadExit(t)

StartStepAudit(h) ==
    \/ \E req \in AuditRequests : StartBegin(h, req)
    \/ StartCheckThread(h)
    \/ \E o \in LoadOutcomes : StartLoad(h, o)
    \/ StartSetStored(h)
    \/ \E o \in LoadOutcomes : StartSetCapacity(h, o)

NextAudit ==
    \/ ThreadStepAudit
    \/ \E h \in StartHandlers : StartStepAudit(h)

SpecAudit == Init /\ [][NextAudit]_vars

TypeOK ==
    /\ stop_simulation \in BOOLEAN
    /\ simulation_thread \in Threads \cup {NoThread}
    /\ response \in Messages \cup {"none"}
    /\ seen \subseteq {"Proceed", "WindDown", "Error"}

(***************************************************************************)
(* The claims                                                              *)
(***************************************************************************)

\* a start request has written the reservoir values and none is in the middle of
\* writing them
ConfigInstalled ==
    /\ simulation_thread # NoThread
    /\ \A h \in StartHandlers : spc[h] # "capacity"

\* C1: once a start request has installed a configuration, after the start and after
\* every tick, 0 <= storedEnergy <= storageCapacity.
StoredWithinBounds ==
    ConfigInstalled =>
        /\ 0 <= stored_energy_joules
        /\ stored_energy_joules <= storage_capacity_joules

\* C2: at most one tick loop is alive at a time, whatever the interleaving of start
\* requests, concurrent ones included.
OneLoopAtATime == Cardinality({t \in Threads : IsAlive(t)}) <= 1

\* C3: the loop a valid start request creates ticks and keeps ticking unless a stop is
\* requested after it was started: it leaves its while loop only after such a request.
LoopEndsOnlyOnRequest == \A t \in Threads : tpc[t] = "exit" => stopSince[t]

\* C4: no step of a start request whose date is invalid changes storedEnergy,
\* storageCapacity, the wind farm capacity, the baseline mapping, the stop flag or the
\* status of a run.
RejectedStartStep(h) == spc[h] # "idle" /\ spc'[h] # spc[h] /\ ~IsValidDate(sreq[h].date)
RejectedStartChangesNothing ==
    [][\A h \in StartHandlers :
          RejectedStartStep(h) =>
              UNCHANGED <<reservoir, previous_total_energy, stop_simulation, tpc>>]_vars

\* the progress report has been answered, and it carried "epochs" and "pod_name"
Answered == rpc = "done" /\ rreq.fields
BelowThreshold == 5 * check_stored < check_capacity

\* C5: a well-formed progress report that finds storedEnergy >= 0.2 * storageCapacity
\* is answered Proceed, whatever its epochs, estimate and workload.
ProceedAtOrAboveThreshold ==
    Answered /\ 5 * check_stored >= check_capacity => response = "Success"

ProceedOnFullReservoir ==
    /\ Answered
    /\ check_capacity > 0
    /\ check_stored = check_capacity
    /\ rreq.has_estimate
    /\ rreq.pod_name \in DOMAIN previous_total_energy
    /\ response = "Success"

\* C6: below 20%, a report without an estimate, or with epochsCompleted = 0, is
\* answered WindDown: never an error, never anything else.
WindDownWithoutLookahead ==
    Answered /\ BelowThreshold /\ (~rreq.has_estimate \/ rreq.epochs = 0)
        => response = "WindDown"

\* C7: below 20%, with an estimate and epochsCompleted > 0: an estimate below the
\* epochs completed is answered WindDown; otherwise, for a workload whose recorded
\* consumption the request has read, the answer is Proceed exactly when
\* storedEnergy - (estimated - epochs) * (energy / epochs) >= 0.1 * storageCapacity
\* and WindDown in every other case.
LookaheadDecision ==
    Answered /\ BelowThreshold /\ rreq.has_estimate /\ rreq.epochs > 0 =>
        /\ rreq.estimated_total_epochs < rreq.epochs => response = "WindDown"
        /\ rreq.estimated_total_epochs >= rreq.epochs /\ baseline_energy # NoEnergy =>
              /\ IsProceed(response) <=>
                     10 * rreq.epochs * look_stored >=
                         look_capacity * rreq.epochs
                         + 10 * (rreq.estimated_total_epochs - rreq.epochs) * baseline_energy
              /\ ~IsProceed(response) => response = "WindDown"

LookaheadProceeds ==
    /\ Answered /\ BelowThreshold /\ rreq.has_estimate /\ rreq.epochs > 0
    /\ rreq.estimated_total_epochs > rreq.epochs
    /\ baseline_energy > 0
    /\ response = "Complete"

LookaheadWindsDown ==
    /\ Answered /\ BelowThreshold /\ rreq.has_estimate /\ rreq.epochs > 0
    /\ rreq.estimated_total_epochs > rreq.epochs
    /\ baseline_energy > 0
    /\ look_stored > 0
    /\ response = "WindDown"

\* a tick of thread t: lines 135-143 ran and the thread is at its stop check
TickOf(t) == tpc[t] = "tick" /\ tpc'[t] = "stopcheck"

\* C8: the poll in which a workload is observed for the first time yields a delta of
\* zero for it, in a tick as in the seeding poll, so that its counter so far is not
\* charged against storedEnergy.
FirstObservationChargesNothing ==
    [][\A t \in Threads :
          TickOf(t) =>
              \A p \in DOMAIN current_energy_difference'[t] \ DOMAIN previous_total_energy :
                  current_energy_difference'[t][p] = 0]_vars

\* C9: a tick whose poll fails leaves the baseline mapping as it was, changes
\* storedEnergy by the generated energy alone (capped at the capacity) and goes on to
\* the next stop check; a thread leaves its loop only when the stop flag is set.
FailedPollDegradesOneTick ==
    [][\A t \in Threads :
          /\ TickOf(t) /\ poll_failed'[t] =>
                /\ previous_total_energy' = previous_total_energy
                /\ current_energy_difference'[t] = Empty
                /\ stored_energy_joules' =
                       Min(stored_energy_joules
                           + Generated(power_factors[t][(power_factor_index[t]
                                                           % Len(power_factors[t])) + 1],
                                       wind_farm_capacity_joules),
                           storage_capacity_joules)
          /\ tpc[t] # tpc'[t] /\ tpc'[t] \in {"exit", "dead", "crashed"} =>
                tpc[t] \in {"while", "exit"} /\ (tpc[t] = "while" => stop_simulation)]_vars

FailedPollWithBaseline ==
    \E t \in Threads :
        /\ tpc[t] = "stopcheck"
        /\ poll_failed[t]
        /\ previous_total_energy # Empty
        /\ wind_farm_capacity_joules > 0
        /\ ~stop_simulation

\* C10: the decision a progress report gets is the one that the storedEnergy,
\* storageCapacity and baseline entry of one single state reached during the request
\* give.
DecisionFromOneState == Answered => Decision(response) \in seen

\* start has created the new run's thread, which has not yet run line 128: every
\* entry of previous_total_energy was recorded before the new run
NewRunPending == simulation_thread # NoThread /\ tpc[simulation_thread] = "init"

\* line 115: the request takes previous_total_energy[pod_name] as the energy consumed
ReportReadsBaseline == rpc = "energy" /\ rpc' = "look_stored"

\* C11: once start has installed a new run, no entry of the baseline mapping recorded
\* during the previous run is used: a thread polls only after emptying the mapping, and
\* no progress report takes its energy consumed so far from the mapping while the new
\* run has not yet emptied it.
NoBaselineLeak ==
    [][/\ \A t \in Threads : tpc'[t] \in {"while", "stopcheck"} /\ tpc[t] # tpc'[t] =>
                                 tpc[t] # "init"
       /\ NewRunPending => ~ReportReadsBaseline]_vars

\* start request h runs lines 196-206 and creates thread t
Spawns(h, t) == spc[h] = "capacity" /\ tpc[t] = "unborn" /\ tpc'[t] = "init"

\* C12: the file the loader expects has one line for every hour of every day that
\* is_valid_date accepts, and with a series of the expected length loaded, the window
\* handed to the thread of an accepted start date is exactly the 24 values of the
\* series from hour offset days * 24 on, none of them past the end of the series.
WindowOfStartDate ==
    [][/\ FileHours = RangeDays * HoursPerDay
       /\ \A h \in StartHandlers, t \in Threads :
              Spawns(h, t) /\ Len(power_factors_data') = ExpectedLen =>
                  /\ IsValidDate(sreq[h].date)
                  /\ StartIndex(sreq[h].date) + HoursPerDay <= Len(power_factors_data')
                  /\ Len(power_factors'[t]) = HoursPerDay
                  /\ \A i \in 1..HoursPerDay :
                         power_factors'[t][i] =
                             power_factors_data'[StartIndex(sreq[h].date) + i]]_vars

LastDayWindow ==
    \E t \in Threads :
        /\ IsAlive(t)
        /\ start_index[t] = StartIndex(LastValidDay)
        /\ Len(power_factors_data) = ExpectedLen
        /\ Len(power_factors[t]) = HoursPerDay
        /\ power_factors[t][HoursPerDay] = PfValue(ExpectedLen - 1)

\* [0.5] * 24
Fallback == [i \in 1..HoursPerDay |-> PfScale \div 2]

\* C13: whatever the loader finds, a start request with a valid date ends with a new
\* thread, which has the 24 fallback values when no series is loaded (none ever, or an
\* empty one), and no thread ever dies of the window it was given.
SourceNeverFatal ==
    [][/\ \A h \in StartHandlers :
              spc[h] = "capacity" /\ spc'[h] = "idle" =>
                  \E t \in Threads :
                      /\ Spawns(h, t)
                      /\ (power_factors_data' = Undefined \/ Len(power_factors_data') = 0)
                             => power_factors'[t] = Fallback
       /\ \A t \in Threads : tpc'[t] # "crashed"]_vars

\* the power factor the tick of thread t takes at line 136
PowerFactorUsed(t) == power_factors[t][(power_factor_index[t] % Len(power_factors[t])) + 1]

\* C14: with the series loaded, tick number n of a run, which is the tick with
\* power_factor_index = n \div IterationsPerHour, uses the value of the full series at
\* hour offset (start offset + power_factor_index) modulo the length of the series,
\* on the first day of the run and after it.
PowerFactorFromFullSeries ==
    [][\A t \in Threads :
          TickOf(t) /\ Len(power_factors_data) = ExpectedLen =>
              PowerFactorUsed(t) =
                  power_factors_data[((start_index[t] + power_factor_index[t])
                                         % Len(power_factors_data)) + 1]]_vars

\* C15: after a stop is requested for a running loop, the tick in progress completes,
\* at most one further tick updates storedEnergy, and the loop stops; a second request
\* made before the loop has seen the first changes nothing of this.
StopTakesEffect == \A t \in Threads : ticks_after_stop[t] <= 1

RECURSIVE HoursTotal(_, _)
HoursTotal(t, hours) ==
    IF hours = 0 THEN 0
    ELSE HoursTotal(t, hours - 1)
         + (power_factors[t][((hours - 1) % Len(power_factors[t])) + 1]
            * wind_farm_capacity_joules) \div PfScale

\* C16: the wind farm's hourly capacity is the configured daily one divided by 24;
\* with zero consumption a tick adds pf * hourly capacity / ticksPerHour to
\* storedEnergy, and the tick that completes an hour leaves it at what the run
\* started with plus pf * hourly capacity for every hour so far, both capped at
\* storageCapacity.
GenerationPerTick ==
    [][\A t \in Threads :
          TickOf(t) /\ Sum(current_energy_difference'[t]) = 0 =>
              /\ wind_farm_capacity_joules * HoursPerDay = SeriesConfig[3] * JoulesPerKwh
              /\ \/ /\ stored_energy_joules' < storage_capacity_joules
                    /\ (stored_energy_joules' - stored_energy_joules)
                           * PfScale * (SecondsPerHour \div UpdateIntervalSec)
                       = PowerFactorUsed(t) * wind_farm_capacity_joules
                 \/ /\ stored_energy_joules' = storage_capacity_joules
                    /\ (storage_capacity_joules - stored_energy_joules)
                           * PfScale * (SecondsPerHour \div UpdateIntervalSec)
                       <= PowerFactorUsed(t) * wind_farm_capacity_joules
              /\ iteration[t] = SecondsPerHour \div UpdateIntervalSec =>
                     stored_energy_joules' =
                         Min(SeriesConfig[1] * JoulesPerKwh
                                 + HoursTotal(t, power_factor_index[t] + 1),
                             storage_capacity_joules)]_vars

SecondHourGenerated ==
    \E t \in Threads :
        /\ tpc[t] = "stopcheck"
        /\ iteration[t] = IterationsPerHour
        /\ power_factor_index[t] = 1
        /\ stored_energy_joules = HoursTotal(t, 2)
        /\ 0 < stored_energy_joules
        /\ stored_energy_joules < storage_capacity_joules

\* a step of the progress report handler
ReportHandlerStep == rpc' # rpc

\* C17: no step of a progress report, rejected or answered, changes storedEnergy,
\* storageCapacity, the wind farm capacity, the baseline mapping, the stop flag, the
\* thread handle or the status of a run.
ReportChangesNothing ==
    [][ReportHandlerStep =>
          UNCHANGED <<reservoir, previous_total_energy, stop_simulation,
                      simulation_thread, tpc>>]_vars

ReportAnsweredDuringRun ==
    /\ rpc = "done"
    /\ response \in {"WindDown", "Invalid"}
    /\ previous_total_energy # Empty
    /\ \E t \in Threads : tpc[t] = "tick"

\* C19: a progress report that found storedEnergy below 20% of storageCapacity and
\* whose workload has no entry in the baseline mapping at line 111 is answered
\* WindDown, whatever its epochs and its estimate; the lookahead answer is only given
\* with a baseline entry read from the mapping.
UnknownWorkloadWindsDown ==
    [][/\ rpc = "known" /\ ReportHandlerStep
              /\ rreq.pod_name \notin DOMAIN previous_total_energy
          => rpc' = "done" /\ response' = "WindDown"
       /\ rpc' = "done" /\ response' = "Complete" => baseline_energy' # NoEnergy]_vars

UnknownWorkloadAnswered ==
    /\ Answered
    /\ BelowThreshold
    /\ rreq.has_estimate
    /\ rreq.epochs = 0
    /\ rreq.estimated_total_epochs > rreq.epochs
    /\ rreq.pod_name \notin DOMAIN previous_total_energy
    /\ \E t \in Threads : tpc[t] = "tick"
    /\ response = "WindDown"
====
